---- MODULE Spec2Model ----
(***************************************************************************)
(* Gen Z Lingo AI (streamlit_app.py): the per-session state kept in        *)
(* st.session_state, the script run and the three handlers that change the *)
(* chat history, plus the QuizEngine session of spec.md section 4.1.       *)
(*                                                                         *)
(* A text is a sequence of tokens, so that concatenation (+=, f-strings)   *)
(* and emptiness (Python truthiness of a str) are computed, not assumed.   *)
(***************************************************************************)
EXTENDS Integers, Sequences, FiniteSets, TLC

VARIABLES
    environ,          \* os.environ["OPENAI_API_KEY"], or KeyErr when not set
    secrets,          \* st.secrets["OPENAI_API_KEY"], or the error the lookup raises
    session_state,    \* st.session_state: a dict from the keys set so far to their values
    stopped,          \* the last script run ended in st.stop()
    uncaught,         \* an exception left get_and_display_llm_response
    last,             \* what the last operation did and rendered, and by how many
                      \* entries it changed the length of the chat history
    store,            \* QuizEngine: TermStore keys
    score,            \* QuizSession.score
    attempts,         \* QuizSession.attempts
    currentRound,     \* QuizSession.currentRound: <<round>>, or Absent
    accepted,         \* number of submitAnswer calls that returned a verdict
    qlast             \* result of the last QuizEngine operation

chatVars == <<environ, secrets, session_state, stopped, uncaught, last>>
quizVars == <<store, score, attempts, currentRound, accepted, qlast>>
vars == <<environ, secrets, session_state, stopped, uncaught, last,
          store, score, attempts, currentRound, accepted, qlast>>

----------------------------------------------------------------------------
(* Bounds of the model *)

MaxMessages == 6      \* longest chat history explored
MaxChunks == 2        \* longest response stream explored
MaxAttempts == 3      \* most quiz submissions explored

----------------------------------------------------------------------------
(* Values *)

None == "<None>"
KeyErr == "KeyError"
FileNotFound == "FileNotFoundError"
NoExc == "<no exception>"
Absent == <<>>

Last(s) == s[Len(s)]

\* Python truthiness of a str / None
Truthy(v) == v # None /\ v # ""

DEFAULT_SELECTBOX_OPTION == "Pick a term..."
\* two of the 31 sample terms
GEN_Z_LINGO_SAMPLES == {"Rizz", "Sus"}
SelectboxOptions == {DEFAULT_SELECTBOX_OPTION} \cup GEN_Z_LINGO_SAMPLES
INITIAL_ASSISTANT_MESSAGE == <<"Yo! What's good?">>
SYSTEM_PROMPT_CONTENT == <<"You are a fun, engaging assistant">>

InitialMessages ==
    << [role |-> "system", content |-> SYSTEM_PROMPT_CONTENT],
       [role |-> "assistant", content |-> INITIAL_ASSISTANT_MESSAGE] >>

\* 'k' in st.session_state
Has(ss, k) == k \in DOMAIN ss

\* st.session_state.k = v
Set(ss, k, v) == [x \in DOMAIN ss \cup {k} |-> IF x = k THEN v ELSE ss[x]]

EmptySessionState == [x \in {} |-> None]

----------------------------------------------------------------------------
(* initialize_openai_client, lines 11-26 *)

\* the try/except chain of lines 13-19
LookupApiKey(env, sec) ==
    IF env # KeyErr THEN env
    ELSE IF sec \notin {FileNotFound, KeyErr} THEN sec
    ELSE None

KEY_NOT_FOUND_ERROR == <<"OpenAI API Key not found. Please set it ... to use the app.">>

\* initialize_openai_client without the st.stop() of line 23
initialize_openai_client_NoStop(ss, env, sec) ==
    LET ss1 == IF ~Has(ss, "openai_api_key")
               THEN Set(ss, "openai_api_key", LookupApiKey(env, sec))
               ELSE ss
    IN  [ss |-> IF ~Has(ss1, "openai_client")
                THEN Set(ss1, "openai_client", [api_key |-> ss1.openai_api_key])
                ELSE ss1,
         stop |-> FALSE,
         error |-> IF ~Truthy(ss1.openai_api_key) THEN KEY_NOT_FOUND_ERROR ELSE <<>>]

\* the session state the function leaves, and whether it ended in st.stop()
initialize_openai_client(ss, env, sec) ==
    LET ss1 == IF ~Has(ss, "openai_api_key")
               THEN Set(ss, "openai_api_key", LookupApiKey(env, sec))
               ELSE ss
    IN  IF ~Truthy(ss1.openai_api_key)
        THEN [ss |-> ss1, stop |-> TRUE, error |-> KEY_NOT_FOUND_ERROR]
        ELSE [ss |-> IF ~Has(ss1, "openai_client")
                     THEN Set(ss1, "openai_client", [api_key |-> ss1.openai_api_key])
                     ELSE ss1,
              stop |-> FALSE, error |-> <<>>]

\* lines 52-56
InitMessages(ss) ==
    IF ~Has(ss, "messages") THEN Set(ss, "messages", InitialMessages) ELSE ss

\* st.selectbox(key="lingo_selector"), lines 138-144: the widget registers its key
RegisterSelectbox(ss) ==
    IF ~Has(ss, "lingo_selector")
    THEN Set(ss, "lingo_selector", DEFAULT_SELECTBOX_OPTION) ELSE ss

----------------------------------------------------------------------------
(* The chat responder as the function sees it: a stream of chunks, each     *)
(* with a delta content or None, that may raise before or between chunks.   *)

\* chunk.choices[0].delta.content of a chunk that carries no content (None)
NoContent == <<"<None>">>
DeltaContents == {NoContent, <<"hi">>}
Streams == UNION {[1..n -> DeltaContents] : n \in 0..MaxChunks}

\* classes an exception raised by create() or by the iteration may have
Raisable == {"AuthenticationError", "RateLimitError", "APIError", "RuntimeError"}
\* str(e)
ErrStrs == {<<>>, <<"boom">>}

\* base class of each class (openai's hierarchy under Exception)
Base(cls) ==
    CASE cls = "AuthenticationError" -> "APIError"
      [] cls = "RateLimitError" -> "APIError"
      [] cls = "APIError" -> "Exception"
      [] cls = "RuntimeError" -> "Exception"
      [] OTHER -> "BaseException"

RECURSIVE IsInstance(_, _)
IsInstance(exc, cls) ==
    IF exc = cls THEN TRUE
    ELSE IF exc = "BaseException" THEN FALSE
    ELSE IsInstance(Base(exc), cls)

AUTH_FAILED_TEXT == <<"Error: Authentication failed. Please check your OpenAI API key.">>

\* ExceptHandler without the final `except Exception` clause
ExceptHandler_NoCatchAll(exc, e) ==
    IF IsInstance(exc, "AuthenticationError")
    THEN [caught |-> TRUE, text |-> AUTH_FAILED_TEXT]
    ELSE IF IsInstance(exc, "APIError")
    THEN [caught |-> TRUE, text |-> <<"OpenAI API Error: ">> \o e]
    ELSE [caught |-> FALSE, text |-> <<>>]

\* the except clauses of lines 100-108, tried in order
ExceptHandler(exc, e) ==
    IF IsInstance(exc, "AuthenticationError")
    THEN [caught |-> TRUE, text |-> AUTH_FAILED_TEXT]
    ELSE IF IsInstance(exc, "APIError")
    THEN [caught |-> TRUE, text |-> <<"OpenAI API Error: ">> \o e]
    ELSE IF IsInstance(exc, "Exception")
    THEN [caught |-> TRUE, text |-> <<"Oops! An unexpected error occurred: ">> \o e]
    ELSE [caught |-> FALSE, text |-> <<>>]

\* lines 94-96: full_response_content += delta.content for the deltas that are not None
RECURSIVE Accumulate(_)
Accumulate(chunks) ==
    IF chunks = <<>> THEN <<>>
    ELSE (IF Head(chunks) # NoContent THEN Head(chunks) ELSE <<>>) \o Accumulate(Tail(chunks))

\* AddUserPrompt without the test of lines 73-75
AddUserPrompt_Always(msgs, user_prompt_content) ==
    Append(msgs, [role |-> "user", content |-> user_prompt_content])

\* lines 73-78: the user's prompt, unless it is already the last message from the user
AddUserPrompt(msgs, user_prompt_content) ==
    IF msgs = <<>> \/ Last(msgs).role # "user" \/ Last(msgs).content # user_prompt_content
    THEN Append(msgs, [role |-> "user", content |-> user_prompt_content])
    ELSE msgs

\* AddAssistantResponse writing over the last entry instead of appending
AddAssistantResponse_Overwrite(msgs, full_response_content) ==
    IF full_response_content # <<>> /\ msgs # <<>>
       /\ Last(msgs).content # full_response_content
    THEN [msgs EXCEPT ![Len(msgs)] =
             [role |-> "assistant", content |-> full_response_content]]
    ELSE msgs

\* lines 110-111
AddAssistantResponse(msgs, full_response_content) ==
    IF full_response_content # <<>>
       /\ (msgs = <<>> \/ Last(msgs).content # full_response_content)
    THEN Append(msgs, [role |-> "assistant", content |-> full_response_content])
    ELSE msgs

\* get_and_display_llm_response, lines 70-111: the stream yields `chunks` and then
\* ends (exc = NoExc) or raises exc, whose str is e
get_and_display_llm_response(msgs, user_prompt_content, chunks, exc, e) ==
    LET msgs1 == AddUserPrompt(msgs, user_prompt_content)
        h == ExceptHandler(exc, e)
    IN  IF exc = NoExc
        THEN LET full == Accumulate(chunks)
             IN  [messages |-> AddAssistantResponse(msgs1, full),
                  response |-> full,
                  shown |-> [kind |-> "markdown", text |-> full],
                  returned |-> TRUE]
        ELSE IF h.caught
        THEN [messages |-> AddAssistantResponse(msgs1, h.text),
              response |-> h.text,
              shown |-> [kind |-> "error", text |-> h.text],
              returned |-> TRUE]
        ELSE \* the exception propagates: lines 110-111 are not reached; the
             \* placeholder keeps the partial text and its cursor (line 97)
             [messages |-> msgs1,
              response |-> <<>>,
              shown |-> [kind |-> "markdown",
                         text |-> IF Accumulate(chunks) = <<>> THEN <<>>
                                  ELSE Accumulate(chunks) \o <<"|">>],
              returned |-> FALSE]

\* line 125
PromptForLlm(selected_term) ==
    <<"Tell me about the Gen Z lingo: '", selected_term,
      "'. Explain its meaning and give an example.">>

\* lines 119-123: content of the last message whose role is user, "" when none
RECURSIVE LastUserMessageContent(_)
LastUserMessageContent(msgs) ==
    IF msgs = <<>> THEN <<>>
    ELSE IF Last(msgs).role = "user" THEN Last(msgs).content
    ELSE LastUserMessageContent(SubSeq(msgs, 1, Len(msgs) - 1))

\* SelectionAsks looking at the last entry only instead of the last user message
SelectionAsks_LastEntryOnly(selected_term, msgs) ==
    /\ selected_term # DEFAULT_SELECTBOX_OPTION
    /\ \/ msgs = <<>>
       \/ Last(msgs).role # "user"
       \/ PromptForLlm(selected_term) # Last(msgs).content

\* line 116 and line 126: whether handle_lingo_selection_change asks the responder
SelectionAsks(selected_term, msgs) ==
    /\ selected_term # DEFAULT_SELECTBOX_OPTION
    /\ PromptForLlm(selected_term) # LastUserMessageContent(msgs)

\* handle_lingo_selection_change, lines 113-127
handle_lingo_selection_change(ss, chunks, exc, e) ==
    LET selected_term == IF Has(ss, "lingo_selector") THEN ss.lingo_selector
                         ELSE DEFAULT_SELECTBOX_OPTION
        prompt_for_llm == PromptForLlm(selected_term)
        g == get_and_display_llm_response(ss.messages, prompt_for_llm, chunks, exc, e)
    IN  IF SelectionAsks(selected_term, ss.messages)
        THEN [ss |-> Set(ss, "messages", g.messages), called |-> TRUE,
              prompt |-> prompt_for_llm, raised |-> exc,
              response |-> g.response, shown |-> g.shown, returned |-> g.returned]
        ELSE [ss |-> ss, called |-> FALSE, prompt |-> <<>>, raised |-> NoExc,
              response |-> <<>>, shown |-> [kind |-> "none", text |-> <<>>],
              returned |-> TRUE]

\* clear_chat_history without lines 65-66
clear_chat_history_KeepSelector(ss) ==
    Set(ss, "messages", InitialMessages)

\* clear_chat_history, lines 59-66
clear_chat_history(ss) ==
    LET ss1 == Set(ss, "messages", InitialMessages)
    IN  IF Has(ss1, "lingo_selector")
        THEN Set(ss1, "lingo_selector", DEFAULT_SELECTBOX_OPTION)
        ELSE ss1

----------------------------------------------------------------------------
(* One run of the script, top to bottom, up to the chat input: lines 28,    *)
(* 52-56 and 138-144. st.stop() ends the run before line 52.                *)

ScriptRun(ss, env, sec) ==
    LET i == initialize_openai_client(ss, env, sec)
    IN  IF i.stop
        THEN [ss |-> i.ss, stop |-> TRUE,
              shown |-> [kind |-> "error", text |-> i.error]]
        ELSE [ss |-> RegisterSelectbox(InitMessages(i.ss)), stop |-> FALSE,
              shown |-> [kind |-> "none", text |-> <<>>]]

\* what the environment may hold
EnvironValues == {KeyErr, "", "sk-env"}
SecretsValues == {FileNotFound, KeyErr, "sk-secrets"}

\* typed into st.chat_input (line 164; an empty input is falsy and is not sent)
TypedPrompts == {<<"hi">>, PromptForLlm("Rizz")}

\* how a request to the responder may go: the stream ends, or create() raises,
\* or the iteration raises after a first chunk
Outcomes ==
    [chunks : Streams, exc : {NoExc}, e : {<<>>}]
    \cup [chunks : {s \in Streams : Len(s) <= 1}, exc : Raisable, e : ErrStrs]

\* the widgets of the page are there: the last run got past line 28
WidgetsShown == ~stopped /\ Has(session_state, "lingo_selector")

Room == Len(session_state.messages) + 2 <= MaxMessages

Quiet(op) ==
    [op |-> op, called |-> FALSE, prompt |-> <<>>, raised |-> NoExc,
     response |-> <<>>, shown |-> [kind |-> "none", text |-> <<>>], returned |-> TRUE,
     added |-> 0]

\* a new browser session: st.session_state is empty and the script runs
StartSession ==
    /\ session_state = EmptySessionState
    /\ LET r == ScriptRun(session_state, environ, secrets)
       IN  /\ session_state' = r.ss
           /\ stopped' = r.stop
           /\ last' = [Quiet("start") EXCEPT !.shown = r.shown]
    /\ UNCHANGED <<environ, secrets, uncaught>>
    /\ UNCHANGED quizVars

\* the script runs again with no input (a redisplay): lines 158-161 only render
Rerun ==
    /\ session_state # EmptySessionState
    /\ LET r == ScriptRun(session_state, environ, secrets)
       IN  /\ session_state' = r.ss
           /\ stopped' = r.stop
           /\ last' = [Quiet("rerun") EXCEPT !.shown = r.shown]
    /\ UNCHANGED <<environ, secrets, uncaught>>
    /\ UNCHANGED quizVars

\* the user sends a prompt: the script runs and line 165 calls the function
TypePrompt ==
    /\ WidgetsShown
    /\ Room
    /\ \E p \in TypedPrompts, o \in Outcomes :
         LET r == ScriptRun(session_state, environ, secrets)
             g == get_and_display_llm_response(r.ss.messages, p, o.chunks, o.exc, o.e)
         IN  /\ session_state' = Set(r.ss, "messages", g.messages)
             /\ stopped' = r.stop
             /\ uncaught' = (uncaught \/ ~g.returned)
             /\ last' = [op |-> "ask", called |-> TRUE, prompt |-> p, raised |-> o.exc,
                         response |-> g.response, shown |-> g.shown,
                         returned |-> g.returned,
                         added |-> Len(g.messages) - Len(session_state.messages)]
    /\ UNCHANGED <<environ, secrets>>
    /\ UNCHANGED quizVars

\* the user picks another option of the selectbox: the widget's value is set,
\* the on_change callback runs (line 142), then the script runs
SelectTerm ==
    /\ WidgetsShown
    /\ Room
    /\ \E t \in SelectboxOptions \ {session_state.lingo_selector}, o \in Outcomes :
         LET h == handle_lingo_selection_change(
                      Set(session_state, "lingo_selector", t), o.chunks, o.exc, o.e)
             r == ScriptRun(h.ss, environ, secrets)
         IN  /\ session_state' = r.ss
             /\ stopped' = r.stop
             /\ uncaught' = (uncaught \/ ~h.returned)
             /\ last' = [op |-> "select", called |-> h.called, prompt |-> h.prompt,
                         raised |-> h.raised, response |-> h.response,
                         shown |-> h.shown, returned |-> h.returned,
                         added |-> Len(r.ss.messages) - Len(session_state.messages)]
    /\ UNCHANGED <<environ, secrets>>
    /\ UNCHANGED quizVars

\* the user presses "Clear Chat History": the script runs, line 147 calls
\* clear_chat_history, and st.rerun() (line 67) runs the script again
ClearChat ==
    /\ WidgetsShown
    /\ LET r == ScriptRun(session_state, environ, secrets)
           r2 == ScriptRun(clear_chat_history(r.ss), environ, secrets)
       IN  /\ session_state' = r2.ss
           /\ stopped' = r2.stop
           /\ last' = [Quiet("clear") EXCEPT
                          !.added = Len(r2.ss.messages) - Len(session_state.messages)]
    /\ UNCHANGED <<environ, secrets, uncaught>>
    /\ UNCHANGED quizVars

----------------------------------------------------------------------------
(* QuizEngine, spec.md section 4.1 *)

AllTerms == {"bet", "cap", "rizz", "sus"}

Min(a, b) == IF a < b THEN a ELSE b

\* the orderings of the set S
Orderings(S) ==
    {f \in [1..Cardinality(S) -> S] : \A i, j \in DOMAIN f : i # j => f[i] # f[j]}

\* the rounds startRound may produce from the store st
Rounds(st) ==
    UNION {
      UNION {
        {[correctTerm |-> c, distractorTerms |-> d, allOptions |-> o] :
            d \in Orderings(D), o \in Orderings(D \cup {c})}
        : D \in {X \in SUBSET (st \ {c}) : Cardinality(X) = Min(3, Cardinality(st) - 1)}}
      : c \in st}

\* whether submitAnswer has a round to score
HasActiveRound(round) == round # Absent

\* ScoreAnswer that leaves the round active
ScoreAnswer_KeepRound(sc, att, round, chosenTerm) ==
    LET correct == (chosenTerm = round[1].correctTerm)
    IN  [score |-> IF correct THEN sc + 1 ELSE sc,
         attempts |-> att + 1,
         currentRound |-> round,
         correct |-> correct,
         correctTerm |-> round[1].correctTerm]

\* the session after submitAnswer scored chosenTerm against the active round
ScoreAnswer(sc, att, round, chosenTerm) ==
    LET correct == (chosenTerm = round[1].correctTerm)
    IN  [score |-> IF correct THEN sc + 1 ELSE sc,
         attempts |-> att + 1,
         currentRound |-> Absent,
         correct |-> correct,
         correctTerm |-> round[1].correctTerm]

startRound ==
    /\ IF Cardinality(store) < 2
       THEN /\ qlast' = [op |-> "startRound", result |-> "InsufficientTermsError"]
            /\ UNCHANGED currentRound
       ELSE /\ \E r \in Rounds(store) : currentRound' = <<r>>
            /\ qlast' = [op |-> "startRound", result |-> "ok"]
    /\ UNCHANGED <<store, score, attempts, accepted>>
    /\ UNCHANGED chatVars

submitAnswer ==
    /\ \E chosenTerm \in AllTerms :
         IF ~HasActiveRound(currentRound)
         THEN /\ qlast' = [op |-> "submitAnswer", result |-> "NoActiveRoundError"]
              /\ UNCHANGED <<score, attempts, currentRound, accepted>>
         ELSE /\ attempts < MaxAttempts
              /\ LET v == ScoreAnswer(score, attempts, currentRound, chosenTerm)
                 IN  /\ score' = v.score
                     /\ attempts' = v.attempts
                     /\ currentRound' = v.currentRound
                     /\ qlast' = [op |-> "submitAnswer",
                                  result |-> IF v.correct THEN "correct" ELSE "wrong"]
              /\ accepted' = accepted + 1
    /\ UNCHANGED store
    /\ UNCHANGED chatVars

----------------------------------------------------------------------------
(* Specifications *)

ChatIdle ==
    /\ session_state = EmptySessionState
    /\ stopped = FALSE
    /\ uncaught = FALSE
    /\ last = Quiet("init")

QuizIdle ==
    /\ score = 0
    /\ attempts = 0
    /\ currentRound = Absent
    /\ accepted = 0
    /\ qlast = [op |-> "init", result |-> "ok"]

\* the chat application: a browser session about to start, in any environment
Init ==
    /\ environ \in EnvironValues
    /\ secrets \in SecretsValues
    /\ ChatIdle
    /\ store = AllTerms
    /\ QuizIdle

Next == StartSession \/ Rerun \/ TypePrompt \/ SelectTerm \/ ClearChat

Spec == Init /\ [][Next]_vars

\* the quiz engine: a new session over any store
QuizInit ==
    /\ environ = KeyErr
    /\ secrets = KeyErr
    /\ ChatIdle
    /\ store \in SUBSET AllTerms
    /\ QuizIdle

QuizNext == startRound \/ submitAnswer

QuizSpec == QuizInit /\ [][QuizNext]_vars

----------------------------------------------------------------------------
(* Properties *)

Started == session_state # EmptySessionState

History == session_state.messages

ERROR_PREFIXES ==
    {"Error: Authentication failed. Please check your OpenAI API key.",
     "OpenAI API Error: ",
     "Oops! An unexpected error occurred: "}

\* C1: whenever the last request to the responder raised (on create or while the
\* stream was consumed), the function returned normally, no exception reached the
\* host, an error message with readable text is on screen, the run was not
\* stopped, and a further prompt and a further term selection can be processed.
C1_FailureIsCaught ==
    (last.called /\ last.raised # NoExc) =>
        /\ last.returned
        /\ ~uncaught
        /\ last.shown.kind = "error"
        /\ last.shown.text # <<>>
        /\ Head(last.shown.text) \in ERROR_PREFIXES
        /\ ~stopped
        /\ (Len(History) + 2 <= MaxMessages => ENABLED TypePrompt /\ ENABLED SelectTerm)

\* a request failed with an exception that is no API error, after an earlier
\* request had failed with an authentication error
C1_Witness ==
    /\ Started /\ ~stopped
    /\ last.op = "ask" /\ last.raised = "RuntimeError" /\ last.returned
    /\ \E i \in 1..(Len(History) - 2) : History[i].content = AUTH_FAILED_TEXT

NoCredential == environ = KeyErr /\ secrets \in {FileNotFound, KeyErr}

\* C2 as claimed: with no credential configured, the started application has
\* its chat history, is not halted, and shows the missing credential as an error.
C2_UsableWithoutCredential ==
    (Started /\ NoCredential) =>
        /\ Has(session_state, "messages")
        /\ ~stopped
        /\ last.op = "start" => last.shown.kind = "error"

\* C2 as amended: with no credential configured, every script run stores None as
\* the key, shows the error and stops at once: no client is made, the chat
\* history is never initialised, and no prompt, selection or clear is processed.
C2_StopsWithoutCredential ==
    (Started /\ NoCredential) =>
        /\ stopped
        /\ session_state.openai_api_key = None
        /\ ~Has(session_state, "openai_client")
        /\ ~Has(session_state, "messages")
        /\ last.shown = [kind |-> "error", text |-> KEY_NOT_FOUND_ERROR]
        /\ ~ENABLED TypePrompt /\ ~ENABLED SelectTerm /\ ~ENABLED ClearChat

\* the script ran again in a session without credential
C2_Witness == Started /\ NoCredential /\ last.op = "rerun" /\ stopped

\* C3: when a request returned a non-empty response text (streamed or error
\* text), the last entry of the history is the assistant message with that text.
C3_ResponseIsLastEntry ==
    (last.called /\ last.returned /\ last.response # <<>>) =>
        Last(History) = [role |-> "assistant", content |-> last.response]

\* C5: no two adjacent entries of the history are user messages with the same
\* content.
C5_NoDoubleUserPrompt ==
    Has(session_state, "messages") =>
        \A i \in 1..(Len(History) - 1) :
            ~(/\ History[i].role = "user"
              /\ History[i + 1].role = "user"
              /\ History[i].content = History[i + 1].content)

\* a prompt was sent again after a request that had left it as the last entry:
\* nothing was added
C5_Witness ==
    /\ Started /\ ~stopped
    /\ last.op = "ask" /\ last.added = 0 /\ last.response = <<>>
    /\ Last(History) = [role |-> "user", content |-> last.prompt]

\* the term is the subject of the most recent user message of msgs
IsSubjectOfLastUserMessage(term, msgs) ==
    \E i \in 1..Len(msgs) :
        /\ msgs[i].role = "user"
        /\ \A j \in (i + 1)..Len(msgs) : msgs[j].role # "user"
        /\ msgs[i].content = PromptForLlm(term)

\* C6: a selection change asks the responder iff the selected term is not the
\* default option and its prompt is not the content of the most recent user
\* message; otherwise no request is made and the history is unchanged.
C6_SelectionAsksIff ==
    [][ last'.op = "select" =>
          /\ last'.called <=>
                (/\ session_state'.lingo_selector # DEFAULT_SELECTBOX_OPTION
                 /\ ~IsSubjectOfLastUserMessage(session_state'.lingo_selector,
                                                session_state.messages))
          /\ ~last'.called => session_state'.messages = session_state.messages
      ]_vars

\* a term was selected that the last user message is already about: no request
C6_Witness ==
    /\ Started /\ ~stopped
    /\ last.op = "select" /\ ~last.called
    /\ session_state.lingo_selector # DEFAULT_SELECTBOX_OPTION
    /\ Len(History) > 2

IsPrefix(s, t) == Len(s) <= Len(t) /\ SubSeq(t, 1, Len(s)) = s

\* C8: every operation but clear_chat_history keeps the entries of the history
\* as they are, in order, and adds none, one or two at the end.
C8_AppendOnly ==
    [][ (Has(session_state, "messages") /\ last'.op # "clear") =>
          /\ IsPrefix(session_state.messages, session_state'.messages)
          /\ Len(session_state'.messages) - Len(session_state.messages) \in {0, 1, 2}
      ]_vars

\* a failed request added the prompt and the error text to a history that
\* already held an exchange
C8_Witness ==
    /\ Started /\ ~stopped
    /\ last.op = "ask" /\ last.raised # NoExc /\ last.added = 2
    /\ Len(History) >= 6

\* C4: attempts counts the submissions that returned a verdict and score never
\* exceeds it; a submitAnswer that follows a submitAnswer with no startRound in
\* between fails with NoActiveRoundError and changes neither score nor attempts.
C4_ScoredOncePerRound ==
    /\ [](attempts = accepted /\ score <= attempts)
    /\ [][ (qlast.op = "submitAnswer" /\ qlast'.op = "submitAnswer") =>
              /\ qlast'.result = "NoActiveRoundError"
              /\ score' = score
              /\ attempts' = attempts
         ]_vars

\* a second submitAnswer was refused after an answer had been scored
C4_Witness ==
    /\ qlast = [op |-> "submitAnswer", result |-> "NoActiveRoundError"]
    /\ attempts >= 1
    /\ currentRound = Absent

====
